---- MODULE Spec2Model ----
(***************************************************************************)
(* OandaStreamApi (vnpy/gateway/oanda/oanda_stream_api.py): the streaming  *)
(* sessions, the connection_checker watchdog, the error path and the       *)
(* message handlers, as a state machine.                                   *)
(*                                                                         *)
(* Time is a global integer clock in seconds (datetime.now()).  A dict is  *)
(* a function whose DOMAIN is the set of keys present.  The sessions of    *)
(* one stream key carry the same closures (same symbol, same callbacks),   *)
(* so they are kept as counters per key and per stage of their life.       *)
(***************************************************************************)
EXTENDS Integers, Sequences, FiniteSets, TLC

\* ---------------------------------------------------------------- bounds
\* the last second of the watchdog specification
MaxClock == 32
\* the last second of the two-symbol watchdog specification
MaxClockPair == 11
\* the last second of the dispatch specification
MaxClockTx == 1
\* the sessions of one key that exist at a time
MaxSessions == 2
\* the last second of the interleaving specification
MaxClockRace == 1
\* the deepest nesting of the exceptions given to the error classifier
MaxDepth == 3

\* ------------------------------------------------------ program constants
\* timedelta(seconds=10), the market-data staleness threshold
PriceStaleSeconds == 10
\* timedelta(seconds=30), the transaction staleness threshold
TransStaleSeconds == 30
\* time.sleep(1), the poll interval
PollSeconds == 1

\* req.symbol of the SubscribeRequests the host issues
Symbols == {"EURUSD", "USDJPY"}
\* self.gateway.account_id
account_id == "101-001"
Keys == Symbols \cup {account_id}

VARIABLES
    clock,                      \* datetime.now()
    fully_initialized,          \* self.fully_initialized
    latest_stream_time,         \* self.latest_stream_time: dict symbol -> time
    trans_latest_stream_time,   \* self.trans_latest_stream_time: dict account -> time
    after_subscribe,            \* self.after_subscribe
    already_init_check,         \* self.already_init_check
    connecting,                 \* per key: streaming requests added, not yet connected
    live,                       \* per key: sessions connected and reading messages
    checkers,                   \* the connection_checker threads started, in order
    orders,                     \* self.gateway.orders: dict order id -> order
    out,                        \* what the step just taken was given and what it called
    wd_stage,                   \* per symbol: where the watchdog's rebuild of it stands
    starting,                   \* per key: on_connected callbacks between lines 109 and 111
    pending                     \* per key: the datetime.now() values read and not yet stored

vars == <<clock, fully_initialized, latest_stream_time, trans_latest_stream_time,
          after_subscribe, already_init_check, connecting, live,
          checkers, orders, out, wd_stage, starting, pending>>

sessionVars == <<connecting, live>>
flagVars == <<fully_initialized, after_subscribe, already_init_check>>
ledgerVars == <<latest_stream_time, trans_latest_stream_time>>
raceVars == <<starting, pending>>

\* ------------------------------------------------------------- helpers
\* d[k] = v on a dict
DictSet(d, k, v) == [x \in (DOMAIN d) \cup {k} |-> IF x = k THEN v ELSE d[x]]

EmptyDict == [x \in {} |-> 0]

\* the sessions of key k that exist
Total(k) == connecting[k] + starting[k] + live[k]

\* out after a step that calls no handler
Quiet == [op |-> "none"]

\* --------------------------------------------------------------- Init
\* the state __init__ leaves (lines 51-69), with no streaming request added
Init ==
    /\ clock = 0
    /\ fully_initialized = FALSE
    /\ latest_stream_time = EmptyDict
    /\ trans_latest_stream_time = EmptyDict
    /\ after_subscribe = FALSE
    /\ already_init_check = FALSE
    /\ connecting = [k \in Keys |-> 0]
    /\ live = [k \in Keys |-> 0]
    /\ checkers = <<>>
    /\ orders = EmptyDict
    /\ out = Quiet
    /\ wd_stage = [s \in Symbols |-> "fresh"]
    /\ starting = [k \in Keys |-> 0]
    /\ pending = [k \in Keys |-> {}]

\* The clock advances, between any two steps of any thread.  No time is stored
\* and none is compared before the first on_connected callback has run, so the
\* clock is started there.
Tick(maxClock) ==
    /\ clock < maxClock
    /\ already_init_check
    /\ clock' = clock + 1
    /\ out' = Quiet
    /\ UNCHANGED <<raceVars, flagVars, ledgerVars, sessionVars, checkers, orders, wd_stage>>

\* ------------------------------------------------------ opening sessions
\* add_streaming_request of OandaApiBase: one more streaming request for key k is
\* opened on a worker thread; nothing is done to the requests already open.
add_streaming_request(conn, k) == [conn EXCEPT ![k] = @ + 1]

\* subscribe(req), lines 93-106: a streaming request for req.symbol whose
\* callbacks are bound to that symbol
subscribe(conn, symbol) == add_streaming_request(conn, symbol)

\* subscribe_transaction(), lines 210-220
subscribe_transaction(conn) == add_streaming_request(conn, account_id)

\* a re_subscribe bound to subscribe_transaction for every session
re_subscribe_account(conn, k) == subscribe_transaction(conn)

\* the re_subscribe partial a session of key k carries (lines 103-104, 218)
re_subscribe(conn, k) ==
    IF k = account_id THEN subscribe_transaction(conn) ELSE subscribe(conn, k)

\* re_subscribe called n times
RECURSIVE re_subscribe_times(_, _, _)
re_subscribe_times(conn, k, n) ==
    IF n = 0 THEN conn ELSE re_subscribe_times(re_subscribe(conn, k), k, n - 1)

\* -------------------------------------------------------- error classifier
\* An exception is the chain of its nested causes: <<t1, t2, ...>> is an exception
\* of type t1 whose args hold an exception of type t2, and so on.
TransientKinds ==
    {"ProtocolError", "IncompleteRead", "RemoteDisconnected", "ConnectTimeout", "ReadTimeout"}

\* has_error that tests the exception itself and not what its args hold
has_error_top(target_type, e) == e # <<>> /\ Head(e) = target_type

\* has_error(target_type, e), lines 175-182
RECURSIVE has_error(_, _)
has_error(target_type, e) ==
    IF e = <<>> THEN FALSE
    ELSE IF Head(e) = target_type THEN TRUE
    ELSE has_error(target_type, Tail(e))

\* lines 194-199: known, after the loop over the five kinds
known_error(e) == \E et \in TransientKinds : has_error(et, e)

\* on_streaming_error that skips the known errors, as the comment of line 192 reads
on_streaming_error_skip(e) ==
    IF known_error(e)
    THEN <<>>
    ELSE <<"re_subscribe", "super.on_error">>

\* on_streaming_error, lines 184-208: the calls it makes, in order
on_streaming_error(e) ==
    IF known_error(e)
    THEN <<"re_subscribe">>
    ELSE <<"re_subscribe", "super.on_error">>

CountOf(calls, c) == Cardinality({i \in 1..Len(calls) : calls[i] = c})

\* what one on_streaming_error call for key k did: opened is the number of
\* streaming requests its re_subscribe calls added
ErrLog(k, e, opened) ==
    [key |-> k,
     known |-> known_error(e),
     resubs |-> CountOf(on_streaming_error(e), "re_subscribe"),
     opened |-> opened,
     escalated |-> CountOf(on_streaming_error(e), "super.on_error") > 0]

\* the transport errors a session fails with
TransportErrors ==
    {<<"ReadTimeout">>,
     <<"ConnectionError", "ProtocolError", "RemoteDisconnected">>,
     <<"ChunkedEncodingError", "ValueError">>,
     <<"SSLError">>}

\* the types of the exceptions given to the classifier: the five kinds and two
\* wrappers of requests that are none of them
ExceptionTypes == TransientKinds \cup {"ConnectionError", "ChunkedEncodingError"}

\* the exceptions nested n deep at most
RECURSIVE Chains(_)
Chains(n) ==
    IF n = 0 THEN {}
    ELSE {<<ty>> : ty \in ExceptionTypes}
         \cup Chains(n - 1)
         \cup {<<ty>> \o c : ty \in ExceptionTypes, c \in Chains(n - 1)}

\* ------------------------------------------------------------ price stream
\* A price string is kept as its split("."): "1.10000" is <<<<1>>, <<1,0,0,0,0>>>>,
\* "1." is <<<<1>>, <<>>>> and "110" is <<<<1,1,0>>>>.
PriceStrings ==
    {<< <<1>>, <<1, 0, 0, 0, 0>> >>, << <<1>>, <<>> >>, << <<1, 1, 0>> >>}

Heartbeat == [type |-> "HEARTBEAT"]

PriceMsgs ==
    {[type |-> "PRICE", instrument |-> s, bid |-> b] : s \in Symbols, b \in PriceStrings}
    \cup {Heartbeat}

\* on_price, lines 150-172, for a PRICE message: the exception that ends it.
\* Line 156 indexes the second part of the bid price string, line 157 divides by
\* its length, and line 158 applies the name s, which nothing defines, so the
\* call raises before the TickData of line 159 is built.
on_price_raises(data) ==
    IF data.type # "PRICE" THEN "none"
    ELSE IF Len(data.bid) < 2 THEN "IndexError"
    ELSE IF Len(data.bid[2]) = 0 THEN "ZeroDivisionError"
    ELSE "NameError"

\* on_price(symbol, data, request), lines 149-173: the host calls made, the
\* exception let out, and self.latest_stream_time afterwards
on_price(symbol, data, ledger, now) ==
    IF on_price_raises(data) # "none"
    THEN [events |-> <<>>, raised |-> on_price_raises(data), ledger |-> ledger]
    ELSE [events |-> <<>>, raised |-> "none", ledger |-> DictSet(ledger, symbol, now)]

\* ------------------------------------------------------ transaction stream
OrderIds == {"abc", "7001"}
Volumes == {100}

\* float(s) of a price string: the digits without the trailing zeros of the
\* fraction, and the number of fraction digits left
RECURSIVE StripZeros(_)
StripZeros(ds) ==
    IF ds # <<>> /\ ds[Len(ds)] = 0 THEN StripZeros(SubSeq(ds, 1, Len(ds) - 1)) ELSE ds

RECURSIVE DigitsValue(_)
DigitsValue(ds) ==
    IF ds = <<>> THEN 0 ELSE 10 * DigitsValue(SubSeq(ds, 1, Len(ds) - 1)) + ds[Len(ds)]

float(s) ==
    LET frac == IF Len(s) < 2 THEN <<>> ELSE StripZeros(s[2])
    IN  [digits |-> DigitsValue(s[1] \o frac), scale |-> Len(frac)]

\* the transaction messages: a dict data, with the keys a message of its type has
TxMsgs ==
    {[type |-> "ORDER_FILL", clientOrderID |-> c, orderID |-> o, price |-> p] :
        c \in OrderIds, o \in OrderIds, p \in {<< <<1>>, <<2, 3, 4, 5>> >>}}
    \cup {[type |-> "ORDER_FILL", orderID |-> o, price |-> p] :
        o \in OrderIds, p \in {<< <<1>>, <<2, 3, 4, 5>> >>, << <<1>>, <<1, 0, 0, 0, 0>> >>}}
    \cup {[type |-> "ORDER_CANCEL", clientOrderID |-> c, id |-> o] : c \in OrderIds, o \in OrderIds}
    \cup {[type |-> "ORDER_CANCEL", id |-> o] : o \in OrderIds}
    \cup {[type |-> ty, id |-> o] : ty \in {"MARKET_ORDER", "LIMIT_ORDER", "STOP_ORDER"}, o \in OrderIds}
    \cup {Heartbeat, [type |-> "DAILY_FINANCING"]}

\* self._transaction_callbacks, lines 61-69
transaction_callbacks ==
    [t \in {"ORDER_FILL", "MARKET_ORDER", "LIMIT_ORDER", "STOP_ORDER", "ORDER_CANCEL"} |->
        CASE t = "ORDER_FILL" -> "on_order_filled"
          [] t = "ORDER_CANCEL" -> "on_order_canceled"
          [] OTHER -> "on_order"]

OrderEvent(order_id, order) ==
    [call |-> "on_order", orderid |-> order_id, status |-> order.status,
     traded |-> order.traded, volume |-> order.volume]

\* on_order, lines 236-241: gateway.parse_order_data builds the order from the
\* message with status NOTTRADED; it is handed to gateway.on_order
on_order(data, ords) ==
    [events |-> <<[call |-> "on_order", orderid |-> data.id, status |-> "NOTTRADED"]>>,
     raised |-> "none", orders |-> ords]

\* on_order_canceled, lines 243-250
on_order_canceled(data, ords) ==
    LET order_id == IF "clientOrderID" \in DOMAIN data THEN data.clientOrderID ELSE data.id
    IN  IF order_id \notin DOMAIN ords
        THEN [events |-> <<>>, raised |-> "KeyError", orders |-> ords]
        ELSE LET order == [ords[order_id] EXCEPT !.status = "CANCELLED"]
             IN  [events |-> <<OrderEvent(order_id, order)>>, raised |-> "none",
                  orders |-> DictSet(ords, order_id, order)]

\* on_order_filled that looks the order up by the broker's orderID alone
on_order_filled_broker_id(data, ords) ==
    LET order_id == data.orderID
    IN  IF order_id \notin DOMAIN ords
        THEN [events |-> <<>>, raised |-> "KeyError", orders |-> ords]
        ELSE LET order == ords[order_id]
                 trade == [call |-> "on_trade", orderid |-> order_id, tradeid |-> order_id,
                           price |-> float(data.price), volume |-> order.volume]
                 filled == [order EXCEPT !.traded = order.volume, !.status = "ALLTRADED"]
             IN  [events |-> <<trade, OrderEvent(order_id, filled)>>, raised |-> "none",
                  orders |-> DictSet(ords, order_id, filled)]

\* on_order_filled, lines 252-293
on_order_filled(data, ords) ==
    LET order_id == IF "clientOrderID" \in DOMAIN data THEN data.clientOrderID ELSE data.orderID
    IN  IF order_id \notin DOMAIN ords
        THEN [events |-> <<>>, raised |-> "KeyError", orders |-> ords]
        ELSE LET order == ords[order_id]
                 trade == [call |-> "on_trade", orderid |-> order_id, tradeid |-> order_id,
                           price |-> float(data.price), volume |-> order.volume]
                 filled == [order EXCEPT !.traded = order.volume, !.status = "ALLTRADED"]
             IN  [events |-> <<trade, OrderEvent(order_id, filled)>>, raised |-> "none",
                  orders |-> DictSet(ords, order_id, filled)]

\* on_transaction with line 234 inside the branch of line 229
on_transaction_indented(data, ords, ledger, now) ==
    LET callback == IF data.type \in DOMAIN transaction_callbacks
                    THEN transaction_callbacks[data.type] ELSE "None"
        r == CASE callback = "on_order_filled" -> on_order_filled(data, ords)
               [] callback = "on_order_canceled" -> on_order_canceled(data, ords)
               [] callback = "on_order" -> on_order(data, ords)
               [] OTHER -> [events |-> <<>>, raised |-> "none", orders |-> ords]
    IN  [events |-> r.events, raised |-> r.raised, orders |-> r.orders,
         ledger |-> IF r.raised = "none" /\ callback # "None"
                    THEN DictSet(ledger, account_id, now) ELSE ledger]

\* on_transaction with line 234 moved before the dispatch of line 228
on_transaction_ledger_first(data, ords, ledger, now) ==
    LET callback == IF data.type \in DOMAIN transaction_callbacks
                    THEN transaction_callbacks[data.type] ELSE "None"
        r == CASE callback = "on_order_filled" -> on_order_filled(data, ords)
               [] callback = "on_order_canceled" -> on_order_canceled(data, ords)
               [] callback = "on_order" -> on_order(data, ords)
               [] OTHER -> [events |-> <<>>, raised |-> "none", orders |-> ords]
    IN  [events |-> r.events, raised |-> r.raised, orders |-> r.orders,
         ledger |-> DictSet(ledger, account_id, now)]

\* on_transaction, lines 226-234: the host calls made, the exception let out,
\* gateway.orders and self.trans_latest_stream_time afterwards
on_transaction(data, ords, ledger, now) ==
    LET callback == IF data.type \in DOMAIN transaction_callbacks
                    THEN transaction_callbacks[data.type] ELSE "None"
        r == CASE callback = "on_order_filled" -> on_order_filled(data, ords)
               [] callback = "on_order_canceled" -> on_order_canceled(data, ords)
               [] callback = "on_order" -> on_order(data, ords)
               [] OTHER -> [events |-> <<>>, raised |-> "none", orders |-> ords]
    IN  [events |-> r.events, raised |-> r.raised, orders |-> r.orders,
         ledger |-> IF r.raised = "none" THEN DictSet(ledger, account_id, now) ELSE ledger]

NoErr == [key |-> "none", known |-> FALSE, resubs |-> 0, opened |-> 0, escalated |-> FALSE]

\* ------------------------------------------------------------- the host
\* the gateway calls subscribe(req) for a symbol
HostSubscribe(s) ==
    /\ Total(s) < MaxSessions
    /\ connecting' = subscribe(connecting, s)
    /\ out' = Quiet
    /\ UNCHANGED <<raceVars, clock, flagVars, ledgerVars, live, checkers, orders, wd_stage>>

\* the gateway puts an order it has sent into self.gateway.orders
HostPlaceOrder(id, v) ==
    /\ id \notin DOMAIN orders
    /\ orders' = DictSet(orders, id, [volume |-> v, traded |-> 0, status |-> "NOTTRADED"])
    /\ out' = Quiet
    /\ UNCHANGED <<raceVars, clock, flagVars, ledgerVars, sessionVars, checkers, wd_stage>>

\* ------------------------------------------------------- on_connected
\* line 109: the callback does its work when the flag is not set yet
starts_checker(flag) == ~flag

\* line 121: the automatic transaction subscription is skipped when the account
\* has a ledger entry
start_subscribes_transaction(tledger) == account_id \notin DOMAIN tledger

\* wd_stage after a session of symbol s has started reading
Replaced(stage, s) ==
    [stage EXCEPT ![s] = IF @ = "rebuilt" THEN "replaced" ELSE @]

\* A price request of symbol s connects and its on_connected callback,
\* _start_connection_checker (lines 108-124), runs; then the session reads its
\* stream.  The thread started on line 119 runs connection_checker, whose test
\* of after_subscribe (line 127) finds what line 112 has set.
ConnectPrice(s) ==
    LET first == starts_checker(already_init_check)
        auto == first /\ start_subscribes_transaction(trans_latest_stream_time)
        conn == [connecting EXCEPT ![s] = @ - 1]
    IN  /\ connecting[s] > 0
        /\ auto => Total(account_id) < MaxSessions
        /\ connecting' = IF auto THEN subscribe_transaction(conn) ELSE conn
        /\ live' = [live EXCEPT ![s] = @ + 1]
        /\ already_init_check' = (first \/ already_init_check)
        /\ after_subscribe' = (first \/ after_subscribe)
        /\ latest_stream_time' =
               IF first THEN DictSet(latest_stream_time, s, clock) ELSE latest_stream_time
        /\ checkers' =
               IF first
               THEN Append(checkers, [symbol |-> s, pc |-> "poll", now |-> 0])
               ELSE checkers
        /\ wd_stage' = IF first THEN [wd_stage EXCEPT ![s] = "fresh"] ELSE Replaced(wd_stage, s)
        /\ out' = Quiet
        /\ UNCHANGED <<raceVars, clock, fully_initialized, trans_latest_stream_time, orders>>

\* The transaction request connects: on_subscribed_transaction, lines 222-224
ConnectTrans ==
    /\ connecting[account_id] > 0
    /\ connecting' = [connecting EXCEPT ![account_id] = @ - 1]
    /\ live' = [live EXCEPT ![account_id] = @ + 1]
    /\ fully_initialized' = TRUE
    /\ trans_latest_stream_time' = DictSet(trans_latest_stream_time, account_id, clock)
    /\ out' = Quiet
    /\ UNCHANGED <<raceVars, clock, after_subscribe, already_init_check, latest_stream_time,
                   checkers, orders, wd_stage>>

\* -------------------------------------------------- connection_checker
\* price_check with >= for > on line 136
price_check_ge(now, later, ledger, symbol) ==
    LET latest == IF symbol \in DOMAIN ledger THEN ledger[symbol] ELSE later
        delta == now - latest
    IN  delta >= PriceStaleSeconds

\* trans_check with an absent entry read as the epoch
trans_check_epoch(now, later, tledger) ==
    LET latest == IF account_id \in DOMAIN tledger THEN tledger[account_id] ELSE 0
        delta == now - latest
    IN  delta > TransStaleSeconds

\* lines 131-136: the market-data test.  now was read on line 130; an absent
\* entry is replaced by a later datetime.now()
price_check(now, later, ledger, symbol) ==
    LET latest == IF symbol \in DOMAIN ledger THEN ledger[symbol] ELSE later
        delta == now - latest
    IN  delta > PriceStaleSeconds

\* lines 142-145: the transaction test, with the now of line 130
trans_check(now, later, tledger) ==
    LET latest == IF account_id \in DOMAIN tledger THEN tledger[account_id] ELSE later
        delta == now - latest
    IN  delta > TransStaleSeconds

\* the keys of a ledger whose entry is more than limit seconds older than the clock
StaleKeys(ledger, limit) == {k \in DOMAIN ledger : clock - ledger[k] > limit}

\* wd_stage after the watchdog has invoked subscribe for symbol s
Rebuilt(stage, s) ==
    [stage EXCEPT ![s] = IF @ \in {"replaced", "again"} THEN "again" ELSE "rebuilt"]

\* One pass of lines 130-138 by checker thread i: now is read, the entry of the
\* thread's req.symbol is tested and re_subscribe is called when it is stale.
CheckerPoll(i) ==
    LET c == checkers[i]
        rebuild == price_check(clock, clock, latest_stream_time, c.symbol)
    IN  /\ c.pc = "poll"
        /\ rebuild => Total(c.symbol) < MaxSessions
        /\ checkers' = [checkers EXCEPT ![i] = [c EXCEPT !.pc = "sleep", !.now = clock]]
        /\ connecting' = IF rebuild THEN subscribe(connecting, c.symbol) ELSE connecting
        /\ wd_stage' = IF rebuild THEN Rebuilt(wd_stage, c.symbol) ELSE wd_stage
        /\ out' = [op |-> "connection_checker", check |-> "price", ontime |-> TRUE,
                   stale |-> StaleKeys(latest_stream_time, PriceStaleSeconds),
                   rebuilt |-> IF rebuild THEN {c.symbol} ELSE {}]
        /\ UNCHANGED <<raceVars, clock, flagVars, ledgerVars, live, orders>>

\* Lines 140-147 by checker thread i: time.sleep(1) has returned, the
\* transaction entry is tested against the now of line 130, and
\* subscribe_transaction is called when it is stale.  now is not read again
\* before line 130 assigns it.
CheckerTrans(i) ==
    LET c == checkers[i]
        rebuild == trans_check(c.now, clock, trans_latest_stream_time)
    IN  /\ c.pc = "sleep"
        /\ clock >= c.now + PollSeconds
        /\ rebuild => Total(account_id) < MaxSessions
        /\ checkers' = [checkers EXCEPT ![i] = [c EXCEPT !.pc = "poll", !.now = 0]]
        /\ connecting' = IF rebuild THEN subscribe_transaction(connecting) ELSE connecting
        /\ out' = [op |-> "connection_checker", check |-> "trans",
                   ontime |-> (clock = c.now + PollSeconds),
                   stale |-> StaleKeys(trans_latest_stream_time, TransStaleSeconds),
                   rebuilt |-> IF rebuild THEN {account_id} ELSE {}]
        /\ UNCHANGED <<raceVars, clock, flagVars, ledgerVars, live, orders, wd_stage>>

\* A rebuild is due and the call that makes it, re_subscribe() on line 138 or
\* subscribe_transaction() on line 147, raises: nothing in connection_checker
\* catches, so the exception leaves the while loop and thread i ends.
CheckerRaises(i) ==
    LET c == checkers[i]
    IN  /\ \/ /\ c.pc = "poll"
              /\ price_check(clock, clock, latest_stream_time, c.symbol)
           \/ /\ c.pc = "sleep"
              /\ clock >= c.now + PollSeconds
              /\ trans_check(c.now, clock, trans_latest_stream_time)
        /\ checkers' = [checkers EXCEPT ![i] = [c EXCEPT !.pc = "dead", !.now = 0]]
        /\ out' = [op |-> "connection_checker", check |-> "raised", ontime |-> TRUE,
                   stale |-> IF c.pc = "poll"
                             THEN StaleKeys(latest_stream_time, PriceStaleSeconds)
                             ELSE StaleKeys(trans_latest_stream_time, TransStaleSeconds),
                   rebuilt |-> {}]
        /\ UNCHANGED <<raceVars, clock, flagVars, ledgerVars, sessionVars, orders, wd_stage>>

\* ------------------------------------------------------- session failure
\* The session's thread ends with exception e and its on_error callback,
\* on_streaming_error bound to the re_subscribe of key k, runs: conn is
\* connecting without the session that failed.
AfterError(conn, k, e) ==
    re_subscribe_times(conn, k, CountOf(on_streaming_error(e), "re_subscribe"))

\* a request of key k fails before it is connected
ConnectError(k, e) ==
    /\ connecting[k] > 0
    /\ LET conn == [connecting EXCEPT ![k] = @ - 1]
       IN  /\ connecting' = AfterError(conn, k, e)
           /\ out' = [op |-> "on_streaming_error", e |-> e,
                      err |-> ErrLog(k, e, AfterError(conn, k, e)[k] - conn[k])]
    /\ UNCHANGED <<raceVars, clock, flagVars, ledgerVars, live, checkers, orders, wd_stage>>

\* a connected session of key k fails while it reads its stream
ReadError(k, e) ==
    /\ live[k] > 0
    /\ live' = [live EXCEPT ![k] = @ - 1]
    /\ connecting' = AfterError(connecting, k, e)
    /\ out' = [op |-> "on_streaming_error", e |-> e,
               err |-> ErrLog(k, e, AfterError(connecting, k, e)[k] - connecting[k])]
    /\ UNCHANGED <<raceVars, clock, flagVars, ledgerVars, checkers, orders, wd_stage>>

\* the stream of a connected session of key k ends: its thread returns and no
\* callback runs
StreamEnd(k) ==
    /\ live[k] > 0
    /\ live' = [live EXCEPT ![k] = @ - 1]
    /\ out' = Quiet
    /\ UNCHANGED <<raceVars, clock, flagVars, ledgerVars, connecting, checkers, orders, wd_stage>>

\* ------------------------------------------------------------ messages
\* A session of symbol s reads message data and calls on_price through the
\* closure of lines 95-98.  An exception on_price lets out ends the session's
\* read loop and goes to its on_error callback.
DeliverPrice(s, data) ==
    LET r == on_price(s, data, latest_stream_time, clock)
        failed == r.raised # "none"
    IN  /\ live[s] > 0
        /\ latest_stream_time' = r.ledger
        /\ live' = IF failed THEN [live EXCEPT ![s] = @ - 1] ELSE live
        /\ connecting' = IF failed THEN AfterError(connecting, s, <<r.raised>>) ELSE connecting
        /\ wd_stage' = IF failed THEN wd_stage ELSE [wd_stage EXCEPT ![s] = "fresh"]
        /\ out' = [op |-> "on_price", key |-> s, data |-> data, events |-> r.events,
                   raised |-> r.raised,
                   err |-> IF failed
                           THEN ErrLog(s, <<r.raised>>,
                                       AfterError(connecting, s, <<r.raised>>)[s] - connecting[s])
                           ELSE NoErr]
        /\ UNCHANGED <<raceVars, clock, flagVars, trans_latest_stream_time, checkers, orders>>

\* A transaction session reads message data and calls on_transaction.
DeliverTrans(data) ==
    LET r == on_transaction(data, orders, trans_latest_stream_time, clock)
        failed == r.raised # "none"
        k == account_id
    IN  /\ live[k] > 0
        /\ orders' = r.orders
        /\ trans_latest_stream_time' = r.ledger
        /\ live' = IF failed THEN [live EXCEPT ![k] = @ - 1] ELSE live
        /\ connecting' = IF failed THEN AfterError(connecting, k, <<r.raised>>) ELSE connecting
        /\ out' = [op |-> "on_transaction", key |-> k, data |-> data, before |-> orders,
                   events |-> r.events, raised |-> r.raised,
                   err |-> IF failed
                           THEN ErrLog(k, <<r.raised>>,
                                       AfterError(connecting, k, <<r.raised>>)[k] - connecting[k])
                           ELSE NoErr]
        /\ UNCHANGED <<raceVars, clock, flagVars, latest_stream_time, checkers, wd_stage>>

\* ---------------------------------------------------- interleaved threads
\* Every session runs on a thread of its own, and so does each of its
\* callbacks; the interpreter may switch threads between any two bytecodes.
\* The steps below are the handlers above cut where another thread's step in
\* between changes the outcome.

\* A request of symbol s connects and its on_connected callback evaluates the
\* test of line 109.  When the flag is set the callback returns and the
\* session reads its stream; otherwise the thread stands before line 110.
ConnectTest(s) ==
    /\ connecting[s] > 0
    /\ connecting' = [connecting EXCEPT ![s] = @ - 1]
    /\ IF starts_checker(already_init_check)
       THEN /\ starting' = [starting EXCEPT ![s] = @ + 1]
            /\ UNCHANGED <<live, wd_stage>>
       ELSE /\ live' = [live EXCEPT ![s] = @ + 1]
            /\ wd_stage' = Replaced(wd_stage, s)
            /\ UNCHANGED starting
    /\ out' = Quiet
    /\ UNCHANGED <<clock, flagVars, ledgerVars, checkers, orders, pending>>

\* Lines 110-124 by a callback of symbol s that has passed the test of line
\* 109: the flags are set, the entry of s is written, a connection_checker
\* thread is started and, when the account has no entry, subscribe_transaction
\* is called.  Then the session reads its stream.
ConnectBody(s) ==
    LET auto == start_subscribes_transaction(trans_latest_stream_time)
    IN  /\ starting[s] > 0
        /\ auto => Total(account_id) < MaxSessions
        /\ starting' = [starting EXCEPT ![s] = @ - 1]
        /\ live' = [live EXCEPT ![s] = @ + 1]
        /\ connecting' = IF auto THEN subscribe_transaction(connecting) ELSE connecting
        /\ already_init_check' = TRUE
        /\ after_subscribe' = TRUE
        /\ latest_stream_time' = DictSet(latest_stream_time, s, clock)
        /\ checkers' = Append(checkers, [symbol |-> s, pc |-> "poll", now |-> 0])
        /\ wd_stage' = [wd_stage EXCEPT ![s] = "fresh"]
        /\ out' = [op |-> "_start_connection_checker", symbol |-> s, auto |-> auto]
        /\ UNCHANGED <<clock, fully_initialized, trans_latest_stream_time, orders, pending>>

\* the ledger of key k
LedgerOf(k) == IF k = account_id THEN trans_latest_stream_time ELSE latest_stream_time

\* A session of key k has been given a HEARTBEAT, which makes no host call,
\* and has evaluated datetime.now() on the right-hand side of line 173 (line
\* 234 for the account); the dict store has not been executed yet.  A session
\* has one message in hand at a time.
BeginStore(k) ==
    /\ live[k] > Cardinality(pending[k])
    /\ clock \notin pending[k]
    /\ pending' = [pending EXCEPT ![k] = @ \cup {clock}]
    /\ out' = Quiet
    /\ UNCHANGED <<clock, flagVars, ledgerVars, sessionVars, checkers, orders, wd_stage, starting>>

\* the dict store of line 173 (234), with the value t read before it
EndStore(k, t) ==
    /\ t \in pending[k]
    /\ pending' = [pending EXCEPT ![k] = @ \ {t}]
    /\ IF k = account_id
       THEN /\ trans_latest_stream_time' =
                   on_transaction(Heartbeat, orders, trans_latest_stream_time, t).ledger
            /\ UNCHANGED <<latest_stream_time, wd_stage>>
       ELSE /\ latest_stream_time' = on_price(k, Heartbeat, latest_stream_time, t).ledger
            /\ wd_stage' = [wd_stage EXCEPT ![k] = "fresh"]
            /\ UNCHANGED trans_latest_stream_time
    /\ out' = [op |-> "store", key |-> k, was |-> LedgerOf(k), now |-> t]
    /\ UNCHANGED <<clock, flagVars, sessionVars, checkers, orders, starting>>

\* ------------------------------------------------------- specifications
\* a second passes with no streaming request left unconnected: a request
\* connects or fails within the second it was added in
PromptTick(maxClock) ==
    /\ \A k \in Keys : connecting[k] = 0
    /\ Tick(maxClock)

\* the seconds at which the server puts a heartbeat on a stream
BeatTimes == {t \in 0..(MaxClock + 1) : t % 5 = 0}

\* The watchdog over both thresholds: the sessions of one symbol and of the
\* account, whose streams carry heartbeats or fall silent, and the
\* connection_checker polling the ledgers as the clock runs.
WatchSymbols == {"EURUSD"}

Next ==
    \/ PromptTick(MaxClock)
    \/ \E s \in WatchSymbols : HostSubscribe(s)
    \/ \E s \in WatchSymbols : ConnectPrice(s)
    \/ ConnectTrans
    \/ \E i \in 1..Len(checkers) : CheckerPoll(i)
    \/ \E i \in 1..Len(checkers) : CheckerTrans(i)
    \/ \E k \in WatchSymbols \cup {account_id} : StreamEnd(k)
    \/ \E s \in WatchSymbols : clock \in BeatTimes /\ DeliverPrice(s, Heartbeat)
    \/ clock \in BeatTimes /\ DeliverTrans(Heartbeat)

Spec == Init /\ [][Next]_vars

\* The watchdog over two symbols, up to the market-data threshold.
NextPair ==
    \/ PromptTick(MaxClockPair)
    \/ \E s \in Symbols : HostSubscribe(s)
    \/ \E s \in Symbols : ConnectPrice(s)
    \/ ConnectTrans
    \/ \E i \in 1..Len(checkers) : CheckerPoll(i)
    \/ \E i \in 1..Len(checkers) : CheckerTrans(i)
    \/ \E k \in Keys : StreamEnd(k)
    \/ \E s \in Symbols : clock \in BeatTimes /\ DeliverPrice(s, Heartbeat)
    \/ clock \in BeatTimes /\ DeliverTrans(Heartbeat)

SpecPair == Init /\ [][NextPair]_vars

\* The sessions, the error path and the message handlers: every message and
\* every transport error, over a short clock.  The host subscribes a symbol
\* that has no session.
DispatchSymbols == {"EURUSD"}

NextDispatch ==
    \/ Tick(MaxClockTx)
    \/ \E s \in DispatchSymbols : Total(s) = 0 /\ HostSubscribe(s)
    \/ \E id \in OrderIds, v \in Volumes : HostPlaceOrder(id, v)
    \/ \E s \in DispatchSymbols : ConnectPrice(s)
    \/ ConnectTrans
    \/ \E i \in 1..Len(checkers) : CheckerPoll(i)
    \/ \E i \in 1..Len(checkers) : CheckerTrans(i)
    \/ \E k \in DispatchSymbols \cup {account_id}, e \in TransportErrors : ConnectError(k, e)
    \/ \E k \in DispatchSymbols \cup {account_id}, e \in TransportErrors : ReadError(k, e)
    \/ \E k \in DispatchSymbols \cup {account_id} : StreamEnd(k)
    \/ \E s \in DispatchSymbols, data \in PriceMsgs : DeliverPrice(s, data)
    \/ \E data \in TxMsgs : DeliverTrans(data)

SpecDispatch == Init /\ [][NextDispatch]_vars

\* The two rebuild paths together: the watchdog specification with sessions
\* that fail while reading, with a known and with an unknown error.  A read
\* fails at a second at which the stream carries a heartbeat.
RebuildErrors == {<<"ReadTimeout">>, <<"SSLError">>}

NextRebuild ==
    \/ PromptTick(MaxClock)
    \/ \E s \in WatchSymbols : Total(s) = 0 /\ HostSubscribe(s)
    \/ \E s \in WatchSymbols : ConnectPrice(s)
    \/ ConnectTrans
    \/ \E i \in 1..Len(checkers) : CheckerPoll(i)
    \/ \E i \in 1..Len(checkers) : CheckerTrans(i)
    \/ \E k \in WatchSymbols \cup {account_id}, e \in RebuildErrors :
          clock \in BeatTimes /\ ReadError(k, e)
    \/ \E k \in WatchSymbols \cup {account_id} : StreamEnd(k)
    \/ \E s \in WatchSymbols : clock \in BeatTimes /\ DeliverPrice(s, Heartbeat)
    \/ clock \in BeatTimes /\ DeliverTrans(Heartbeat)

SpecRebuild == Init /\ [][NextRebuild]_vars

\* The watchdog while a request stays unconnected for any length of time: the
\* clock runs whether or not the requests added have connected, and a rebuild
\* call may raise inside the watchdog.
NextAbsent ==
    \/ Tick(MaxClock)
    \/ \E s \in WatchSymbols : Total(s) = 0 /\ HostSubscribe(s)
    \/ \E s \in WatchSymbols : ConnectPrice(s)
    \/ ConnectTrans
    \/ \E i \in 1..Len(checkers) : CheckerPoll(i)
    \/ \E i \in 1..Len(checkers) : CheckerTrans(i)
    \/ \E i \in 1..Len(checkers) : CheckerRaises(i)
    \/ \E s \in WatchSymbols : clock \in BeatTimes /\ DeliverPrice(s, Heartbeat)
    \/ clock \in BeatTimes /\ DeliverTrans(Heartbeat)

SpecAbsent == Init /\ [][NextAbsent]_vars

\* the exceptions the classifier is given
ClassifierInputs == Chains(MaxDepth)

\* a session that fails right after another has failed fails with the same
\* exception
SameFailure(e) == out.op = "on_streaming_error" => e = out.e

\* The error classifier over every exception nested MaxDepth deep at most:
\* sessions are opened and fail, before or after they connect.
NextClassify ==
    \/ \E s \in DispatchSymbols : Total(s) = 0 /\ HostSubscribe(s)
    \/ \E s \in DispatchSymbols : ConnectPrice(s)
    \/ ConnectTrans
    \/ \E k \in DispatchSymbols \cup {account_id}, e \in ClassifierInputs :
          SameFailure(e) /\ ConnectError(k, e)
    \/ \E k \in DispatchSymbols \cup {account_id}, e \in ClassifierInputs :
          SameFailure(e) /\ ReadError(k, e)

SpecClassify == Init /\ [][NextClassify]_vars

\* The interleavings of the on_connected callbacks and of the ledger writes:
\* the host subscribes both symbols, the requests connect on their worker
\* threads, and the sessions are given heartbeats.
NextRace ==
    \/ Tick(MaxClockRace)
    \/ \E s \in Symbols : HostSubscribe(s)
    \/ \E s \in Symbols : ConnectTest(s)
    \/ \E s \in Symbols : ConnectBody(s)
    \/ ConnectTrans
    \/ \E k \in Keys : BeginStore(k)
    \/ \E k \in Keys : \E t \in pending[k] : EndStore(k, t)

SpecRace == Init /\ [][NextRace]_vars

\* ----------------------------------------------------------------- claims
\* the step just taken was a watchdog check of the given kind
Checked(kind) == out.op = "connection_checker" /\ out.check = kind

\* the step just taken ran on_streaming_error
ErrorHandled ==
    /\ out.op \in {"on_streaming_error", "on_price", "on_transaction"}
    /\ out.err.key # "none"

\* the step just taken gave on_transaction a message of one of the types
Dispatched(types) == out.op = "on_transaction" /\ out.data.type \in types

\* the order id a fill or a cancel names: the client's, else the broker's
NamedOrder(data) ==
    IF "clientOrderID" \in DOMAIN data THEN data.clientOrderID
    ELSE IF data.type = "ORDER_FILL" THEN data.orderID ELSE data.id

\* C1: for every stream key at most one session is connected and reading at
\* any instant.
C1_OneSessionPerKey == \A k \in Keys : live[k] <= 1

\* C2: in every market-data check of the watchdog, each symbol that has a
\* connected session and whose ledger entry is more than 10 seconds old has
\* subscribe invoked for it, and subscribe is invoked for no symbol that is
\* not stale.
C2_EveryStaleSymbolRebuilt ==
    Checked("price") =>
        /\ \A s \in out.stale : live[s] > 0 => s \in out.rebuilt
        /\ out.rebuilt \subseteq out.stale

\* C3: during one silence of a symbol the watchdog invokes subscribe for it
\* once: it does not invoke it again after the replacement session has
\* connected and before a message has been delivered.
C3_OneRebuildPerSilence == \A s \in Symbols : wd_stage[s] # "again"

\* C4: the watchdog invokes a rebuild only for a key whose ledger entry is, at
\* that moment, more than its threshold old (10 seconds for a symbol, 30 for
\* the account); so a key refreshed at intervals of at most its threshold is
\* never rebuilt.
C4_FreshNeverRebuilt ==
    out.op = "connection_checker" => out.rebuilt \subseteq out.stale

\* a market-data check has found an entry exactly 10 seconds old and has left
\* the session alone
C4_Witness ==
    /\ Checked("price")
    /\ out.rebuilt = {}
    /\ \E s \in DOMAIN latest_stream_time : clock - latest_stream_time[s] = PriceStaleSeconds

\* C5: in every transaction check of the watchdog, subscribe_transaction is
\* invoked exactly when the account's entry is more than 30 seconds older than
\* the current time.  It is stated of the checks whose time.sleep(1) lasted
\* one second, the least it can last.
C5_TransCheckAgainstCurrentTime ==
    (Checked("trans") /\ out.ontime) => out.rebuilt = out.stale

\* C6: every on_streaming_error call, for a known or an unknown error, calls
\* re_subscribe exactly once, and so adds exactly one streaming request.
C6_AlwaysRetriesOnce == ErrorHandled => out.err.resubs = 1 /\ out.err.opened = 1

\* an unknown transport error has been handled: retried and escalated
C6_Witness ==
    /\ out.op = "on_streaming_error"
    /\ ~out.err.known
    /\ out.err.escalated
    /\ connecting[out.err.key] > 0

\* C7: a fill or a cancel that names an order the store does not hold makes no
\* host call, lets no exception out of on_transaction and leaves the session
\* reading.
C7_MissingOrderSkipped ==
    (Dispatched({"ORDER_FILL", "ORDER_CANCEL"}) /\ NamedOrder(out.data) \notin DOMAIN out.before)
        => out.events = <<>> /\ out.raised = "none" /\ out.err.key = "none"

\* C8: a transaction message whose type is not in the dispatch table makes no
\* host call, changes no order, lets no exception out, and the account's
\* ledger entry is set to the current time.
C8_UnknownTypeIsLiveness ==
    (out.op = "on_transaction" /\ out.data.type \notin DOMAIN transaction_callbacks)
        => /\ out.events = <<>>
           /\ orders = out.before
           /\ out.raised = "none" /\ out.err.key = "none"
           /\ account_id \in DOMAIN trans_latest_stream_time
           /\ trans_latest_stream_time[account_id] = clock

\* an unrecognized type has arrived a second after the session connected, with
\* an order in the store
C8_Witness ==
    /\ out.op = "on_transaction"
    /\ out.data.type = "DAILY_FINANCING"
    /\ orders # EmptyDict
    /\ clock > 0
    /\ trans_latest_stream_time[account_id] = clock

\* the number each price string of the fill messages stands for
ExpectedPrice(p) ==
    IF p = << <<1>>, <<2, 3, 4, 5>> >>
    THEN [digits |-> 12345, scale |-> 4]
    ELSE [digits |-> 11, scale |-> 1]

\* C9: a fill for an order the store holds makes one on_trade, whose order id
\* is the message's clientOrderID when it has one and its orderID otherwise,
\* whose volume is the order's volume and whose price is the message's price;
\* then one on_order for the order, which is ALLTRADED with traded = volume.
C9_FillOfKnownOrder ==
    (Dispatched({"ORDER_FILL"}) /\ NamedOrder(out.data) \in DOMAIN out.before)
        => LET id == NamedOrder(out.data)
           IN  /\ out.raised = "none"
               /\ Len(out.events) = 2
               /\ out.events[1].call = "on_trade"
               /\ out.events[1].orderid = id
               /\ out.events[1].volume = out.before[id].volume
               /\ out.events[1].price = ExpectedPrice(out.data.price)
               /\ out.events[2].call = "on_order"
               /\ out.events[2].orderid = id
               /\ out.events[2].status = "ALLTRADED"
               /\ orders[id].status = "ALLTRADED"
               /\ orders[id].traded = orders[id].volume

\* a fill whose clientOrderID and orderID differ has filled the client's order
C9_Witness ==
    /\ Dispatched({"ORDER_FILL"})
    /\ "clientOrderID" \in DOMAIN out.data
    /\ out.data.clientOrderID # out.data.orderID
    /\ out.data.orderID \in DOMAIN orders
    /\ Len(out.events) = 2
    /\ out.events[1].orderid = out.data.clientOrderID

\* C10: every PRICE message makes exactly one on_tick, the handler returns
\* normally and the ledger entry of the instrument is set to the current time.
C10_PriceMakesOneTick ==
    (out.op = "on_price" /\ out.data.type = "PRICE")
        => /\ Len(out.events) = 1
           /\ out.raised = "none"
           /\ out.data.instrument \in DOMAIN latest_stream_time
           /\ latest_stream_time[out.data.instrument] = clock

\* C11: every store into a ledger entry of a key that has a connected session
\* stores a time that is not earlier than the time the entry held, whichever
\* way the threads that write it are interleaved.
C11_LedgerNeverDecreases ==
    (out.op = "store" /\ live[out.key] > 0 /\ out.key \in DOMAIN out.was)
        => out.now >= out.was[out.key]

\* C12: every rebuild opens a request for the key of the session it replaces
\* and for no other key.  A watchdog check adds one request for each key it
\* rebuilds, which is a stale key, and none for any other key; the error path
\* replaces the failed session by one request for the same key, so the sessions
\* of every key are as many as before the failure.
C12_RebuildKeepsParameters ==
    [][/\ out'.op = "connection_checker" =>
            /\ out'.rebuilt \subseteq out'.stale
            /\ \A k \in Keys :
                  connecting'[k] = connecting[k] + (IF k \in out'.rebuilt THEN 1 ELSE 0)
       /\ out'.op = "on_streaming_error" =>
            \A k \in Keys : connecting'[k] + live'[k] = connecting[k] + live[k]
      ]_vars

\* the watchdog has rebuilt the transaction stream after it had rebuilt the
\* symbol's stream more than once
C12_Witness ==
    /\ Checked("trans")
    /\ out.rebuilt = {account_id}
    /\ \E s \in Symbols : wd_stage[s] = "again"

\* C13: at most one connection_checker thread is ever started, whichever way
\* the on_connected callbacks are interleaved.
C13_OneWatchdog == Len(checkers) <= 1

\* C14: a rebuild call that raises inside the watchdog does not end the
\* watchdog: every connection_checker thread started is still in its loop.
C14_WatchdogSurvivesFailedRebuild ==
    \A i \in 1..Len(checkers) : checkers[i].pc # "dead"

\* C15: on_streaming_error calls super().on_error exactly when none of the
\* five transient kinds is the type of the exception or of an exception
\* nested in it, at any depth.
C15_EscalatedIffNoTransientKind ==
    out.op = "on_streaming_error" =>
        (out.err.escalated <=> \A i \in 1..Len(out.e) : out.e[i] \notin TransientKinds)

\* an exception whose only transient kind is nested deepest has been handled
\* and not escalated
C15_Witness ==
    /\ out.op = "on_streaming_error"
    /\ Len(out.e) = MaxDepth
    /\ \A i \in 1..(MaxDepth - 1) : out.e[i] \notin TransientKinds
    /\ out.e[MaxDepth] \in TransientKinds
    /\ ~out.err.escalated

\* C16: a session that fails does not open its own replacement: no
\* on_streaming_error call adds a streaming request.
C16_OnlyWatchdogReopens == ErrorHandled => out.err.opened = 0

\* C17: no watchdog check rebuilds a key that has no ledger entry.
C17_AbsentNeverRebuilt ==
    out.op = "connection_checker" => \A k \in out.rebuilt : k \in DOMAIN LedgerOf(k)

\* the transaction check has run with the account's entry absent for more
\* than 30 seconds and has rebuilt nothing
C17_Witness ==
    /\ Checked("trans")
    /\ account_id \notin DOMAIN trans_latest_stream_time
    /\ clock > TransStaleSeconds
    /\ out.rebuilt = {}

\* C18: a handler that returns normally has set the ledger entry of its key to
\* the current time, whether or not it made a host call; a handler that
\* raises leaves the ledger as it was, so the entry is written after the
\* dispatch and not before it.
C18_LedgerAfterDispatch ==
    [][/\ out'.op = "on_transaction" =>
            IF out'.raised = "none"
            THEN /\ account_id \in DOMAIN trans_latest_stream_time'
                 /\ trans_latest_stream_time'[account_id] = clock'
            ELSE trans_latest_stream_time' = trans_latest_stream_time
       /\ out'.op = "on_price" =>
            IF out'.raised = "none"
            THEN /\ out'.key \in DOMAIN latest_stream_time'
                 /\ latest_stream_time'[out'.key] = clock'
            ELSE latest_stream_time' = latest_stream_time
      ]_vars

\* a fill has made its two host calls and the account's entry, written a
\* second earlier at the latest, holds the current time
C18_Witness ==
    /\ Dispatched({"ORDER_FILL"})
    /\ Len(out.events) = 2
    /\ clock > 0
    /\ trans_latest_stream_time[account_id] = clock

\* C19: a transaction message leaves the status of every order that was
\* ALLTRADED or CANCELLED before it as it was.
C19_FinalStatusKept ==
    out.op = "on_transaction" =>
        \A id \in DOMAIN out.before :
            out.before[id].status \in {"ALLTRADED", "CANCELLED"}
                => orders[id].status = out.before[id].status

\* C20: the on_connected callback that calls subscribe_transaction is the
\* first one, the one that started the only connection_checker, so the call
\* is made at most once; and fully_initialized is false while no transaction
\* session has connected.
C20_AutoSubscribeOnce ==
    /\ (out.op = "_start_connection_checker" /\ out.auto) => Len(checkers) = 1
    /\ fully_initialized => account_id \in DOMAIN trans_latest_stream_time

====
